---- MODULE Spec2Model ----
(***************************************************************************)
(* ResizeInstanceMask (csrc/mmdeploy/codebase/mmdet/instance_segmentation  *)
(* .cpp): the per-detection mask reprojection of the mmdet post-processor. *)
(*                                                                         *)
(* Units.  Coordinates of boxes are floats in the code; here they are      *)
(* integers counting HALF pixels (3 stands for 1.5), so that floor, ceil   *)
(* and static_cast<int> are real conversions.  Mask values and thresholds  *)
(* count tenths (5 stands for 0.5).  Affine coefficients are exact         *)
(* fractions <<numerator, denominator>>; a zero denominator stands for the *)
(* non-finite float (inf or NaN) a division by zero produces.              *)
(***************************************************************************)
EXTENDS Integers, Sequences, FiniteSets, TLC

VARIABLES cfg, mask_thr_binary_, is_rcnn_, device_,
          pc, infer_res, prep_res, result, dispatched, i,
          stream, warped_mask, mats, applied, log, failed, ret

vars == <<cfg, mask_thr_binary_, is_rcnn_, device_,
          pc, infer_res, prep_res, result, dispatched, i,
          stream, warped_mask, mats, applied, log, failed, ret>>

objvars == <<cfg, mask_thr_binary_, is_rcnn_, device_>>

(***************************************************************************)
(* Bounds of the model.                                                    *)
(***************************************************************************)
MaxDets == 2       \* rows of the dets/labels/masks tensors in a call
ImgW == 4          \* ori_shape[2] of the calls of Spec, in pixels
ImgH == 3          \* ori_shape[1]
MaskH == 2         \* masks.shape(2) after the squeeze: rows of one slice
MaskW == 1         \* masks.shape(3): columns of one slice
CoordPad == 3      \* GeomSpec: half pixels a box may lie outside the image

(***************************************************************************)
(* Program constants.                                                      *)
(***************************************************************************)
DefaultThr == 5    \* float mask_thr_binary_{.5f}

NoMask == [height |-> -1, width |-> -1, fg |-> {<<-1, -1>>}]

Max(a, b) == IF a >= b THEN a ELSE b
Min(a, b) == IF a <= b THEN a ELSE b

(***************************************************************************)
(* Float helpers, on half pixels.                                          *)
(***************************************************************************)
\* std::floor of a coordinate: the largest whole pixel <= h/2, in half pixels
Floor(h) == 2 * (h \div 2)

\* std::ceil of a coordinate, in half pixels
Ceil(h) == -Floor(-h)

\* static_cast<int>(float): the half-pixel count h as whole pixels, truncated
\* toward zero
StaticCastInt(h) == IF h >= 0 THEN h \div 2 ELSE -((-h) \div 2)

\* a tight crop: the one-pixel pad before the clip is left out
ClipLo_Tight(b) == Max(Floor(b), 0)

\* x0 = std::max(std::floor(bbox[0]) - 1, 0.f), in half pixels
ClipLo(b) == Max(Floor(b) - 2, 0)

\* the upper edge without its one-pixel pad
ClipHi_NoPad(b, img) == Min(Ceil(b), 2 * img)

\* x1 = std::min(std::ceil(bbox[2]) + 1, (float)img_w), in half pixels
ClipHi(b, img) == Min(Ceil(b) + 2, 2 * img)

\* width = static_cast<int>(x1 - x0)
TargetWidth(bbox, img_w) == StaticCastInt(ClipHi(bbox[3], img_w) - ClipLo(bbox[1]))

\* height = static_cast<int>(y1 - y0)
TargetHeight(bbox, img_h) == StaticCastInt(ClipHi(bbox[4], img_h) - ClipLo(bbox[2]))

(***************************************************************************)
(* Affine coefficients, as fractions <<n, d>>.                             *)
(***************************************************************************)
Finite(q) == q[2] # 0
RatEq(a, b) == Finite(a) /\ Finite(b) /\ a[1] * b[2] = b[1] * a[2]

\* (x0 + .5f - bbox[0]) * f - .5f, with x0 and b in half pixels
Offset(x0, b, f) == <<(x0 + 1 - b) * f[1] - f[2], 2 * f[2]>>

\* is_rcnn_ branch: fx, fy from the mask extents and the rescaled box
AffineRcnn(bbox, mask_height, mask_width, x0, y0) ==
    LET fx == <<2 * mask_height, bbox[3] - bbox[1]>>
        fy == <<2 * mask_width, bbox[4] - bbox[2]>>
    IN  [fx |-> fx, fy |-> fy,
         tx |-> Offset(x0, bbox[1], fx), ty |-> Offset(y0, bbox[2], fy)]

\* the else branch without the re-anchoring to the raw box's corner
AffineRtmdet_NoAnchor(bbox, raw, x0, y0) ==
    LET fx == <<raw[3] - raw[1], bbox[3] - bbox[1]>>
        fy == <<raw[4] - raw[2], bbox[4] - bbox[2]>>
    IN  [fx |-> fx, fy |-> fy,
         tx |-> Offset(x0, bbox[1], fx), ty |-> Offset(y0, bbox[2], fy)]

\* else branch (rtmdet-ins): fx, fy from the raw box and the rescaled box, and
\* the offsets moved by the raw box's corner
AffineRtmdet(bbox, raw, x0, y0) ==
    LET fx == <<raw[3] - raw[1], bbox[3] - bbox[1]>>
        fy == <<raw[4] - raw[2], bbox[4] - bbox[2]>>
        ox == Offset(x0, bbox[1], fx)
        oy == Offset(y0, bbox[2], fy)
    IN  [fx |-> fx, fy |-> fy,
         tx |-> <<ox[1] + raw[1] * fx[2], ox[2]>>,
         ty |-> <<oy[1] + raw[2] * fy[2], oy[2]>>]

\* float affine_matrix[] = {fx, 0, tx, 0, fy, ty}, by the convention flag
AffineMatrix(rcnn, bbox, raw, mask_height, mask_width, x0, y0) ==
    IF rcnn THEN AffineRcnn(bbox, mask_height, mask_width, x0, y0)
            ELSE AffineRtmdet(bbox, raw, x0, y0)

(***************************************************************************)
(* Rasters.  The values of a resampled raster come from the warp operator, *)
(* which is outside this file: a raster is its size and one of a few value *)
(* patterns; RasterValue gives the value of a pixel in tenths.             *)
(***************************************************************************)
Patterns == {1, 2}
\* what a host buffer holds before the copy into it has run
StalePatterns == {0}
Levels == <<3, 5, 7, 9>>
RasterValue(p, ox, oy) == Levels[((ox + oy + p) % 4) + 1]
Pixels(height, width) == {<<ox, oy>> \in (0 .. width - 1) \X (0 .. height - 1) : TRUE}

\* a threshold that lets the value equal to it through
Binarize_GE(raster, thr) ==
    {px \in Pixels(raster.height, raster.width) :
        RasterValue(raster.pattern, px[1], px[2]) >= thr}

\* warped_mat = warped_mat > mask_thr_binary_ : the pixels set to 255
Binarize(raster, thr) ==
    {px \in Pixels(raster.height, raster.width) :
        RasterValue(raster.pattern, px[1], px[2]) > thr}

\* det.mask = Mat(height, width, kGRAYSCALE, kINT8, warped_mat.data)
MakeMat(height, width, raster, thr) ==
    [height |-> height, width |-> width, fg |-> Binarize(raster, thr)]

(***************************************************************************)
(* Construction.                                                           *)
(***************************************************************************)
\* A configuration: whether it has a "params" section, whether that section
\* sets "mask_thr_binary" (and to what), whether it holds the key "rcnn".
ThrChoices == {7}
Configs ==
    {[has_params |-> FALSE, has_thr |-> FALSE, thr |-> 0, rcnn |-> FALSE]} \cup
    {[has_params |-> TRUE, has_thr |-> FALSE, thr |-> 0, rcnn |-> r] : r \in BOOLEAN} \cup
    {[has_params |-> TRUE, has_thr |-> TRUE, thr |-> t, rcnn |-> r] :
        t \in ThrChoices, r \in BOOLEAN}

\* cfg["params"].value("mask_thr_binary", mask_thr_binary_)
CtorThr(c) ==
    IF c.has_params /\ c.has_thr THEN c.thr ELSE DefaultThr

\* is_rcnn_{true}, overwritten by cfg["params"].contains("rcnn")
CtorIsRcnn(c) == IF c.has_params THEN c.rcnn ELSE TRUE

Devices == {"host", "accel"}

(***************************************************************************)
(* Inputs of a call.                                                       *)
(***************************************************************************)
BoxFit == <<2, 2, 2 + 2 * MaskH, 2 + 2 * MaskW>>
BoxOrigin == <<0, 0, 2 * MaskH, 2 * MaskW>>
BoxThin == <<3, 1, 3, 4>>
BoxOut == <<2 * ImgW + 4, 0, 2 * ImgW + 6, 2>>
SpecBoxes == {BoxFit, BoxOrigin, BoxThin, BoxOut}
Row(b) == [box |-> b, score |-> IF b = BoxThin THEN 3 ELSE 9,
           label |-> IF b[1] = 0 THEN 1 ELSE 0]
RawRows == {Row(b) : b \in SpecBoxes}
\* the rows of a dets tensor: up to MaxDets consecutive boxes of a round of
\* the four
Round == <<BoxFit, BoxThin, BoxOut, BoxOrigin>>
RowLists ==
    {[j \in 1 .. n |-> Row(Round[((s + j - 2) % 4) + 1])] :
        s \in 1 .. 4, n \in 0 .. MaxDets}
\* what a host copy of dets holds before the copy into it has run
StaleRows(n) == [j \in 1 .. n |-> Row(BoxOut)]
Shapes == [dets_rank : {2, 3}, dets_float : BOOLEAN, labels_rank : {1, 2},
           masks_rank : {3, 4}, masks_float : BOOLEAN]
ScaleFactors == {1, 2}

\* the checks without the one on labels
ValidShapes_NoLabels(r) ==
    /\ r.dets_rank = 3 /\ r.dets_float
    /\ r.masks_rank = 4 /\ r.masks_float

\* the three checks of operator()
ValidShapes(r) ==
    /\ r.dets_rank = 3 /\ r.dets_float
    /\ r.labels_rank = 2
    /\ r.masks_rank = 4 /\ r.masks_float

Scale(b, k) == <<b[1] * k, b[2] * k, b[3] * k, b[4] * k>>

\* the Detections of the bbox decoder: the kept rows in order, each with its
\* row index, its box mapped to the original image, its label and score
GetBBoxes(rows, k, keep) ==
    LET n == Len(rows)
        Kept(j) == j \in keep
        idx == SelectSeq([j \in 1 .. n |-> j], Kept)
    IN  [p \in 1 .. Len(idx) |->
            [index |-> idx[p], bbox |-> Scale(rows[idx[p]].box, k),
             label |-> rows[idx[p]].label, score |-> rows[idx[p]].score,
             mask |-> NoMask]]

NoRaster == [height |-> -1, width |-> -1, pattern |-> -1]
NoRet == [kind |-> "none", value |-> <<>>]
NoShape == [dets_rank |-> 0, dets_float |-> FALSE, labels_rank |-> 0,
            masks_rank |-> 0, masks_float |-> FALSE]
NoInfer == [shape |-> NoShape, rows |-> <<>>, mask_height |-> 0, mask_width |-> 0]
NoPrep == [img_w |-> 0, img_h |-> 0, k |-> 0]
NoBox == <<0, 0, 0, 0>>
Pending(op) == \E q \in 1 .. Len(stream) : stream[q] = op
Event(name, det) == [ev |-> name, det |-> det, pending |-> FALSE]

Init ==
    /\ cfg \in Configs
    /\ mask_thr_binary_ = CtorThr(cfg)
    /\ is_rcnn_ = CtorIsRcnn(cfg)
    /\ device_ \in Devices
    /\ pc = "idle"
    /\ infer_res = NoInfer
    /\ prep_res = NoPrep
    /\ result = <<>>
    /\ dispatched = <<>>
    /\ i = 0
    /\ stream = <<>>
    /\ warped_mask = NoRaster
    /\ mats = <<>>
    /\ applied = <<>>
    /\ log = <<>>
    /\ failed = {}
    /\ ret = NoRet

(***************************************************************************)
(* operator()                                                              *)
(***************************************************************************)
\* entry: the tensors of infer_res and the image metas of prep_res
Enter ==
    /\ pc = "idle"
    /\ \E sh \in Shapes, k \in ScaleFactors :
         \E rows \in (IF ValidShapes(sh) THEN RowLists ELSE {<<>>}) :
            /\ infer_res' = [shape |-> sh, rows |-> rows,
                             mask_height |-> MaskH, mask_width |-> MaskW]
            /\ prep_res' = [img_w |-> ImgW, img_h |-> ImgH, k |-> k]
    /\ pc' = "validate"
    /\ UNCHANGED <<objvars, result, dispatched, i, stream, warped_mask, mats,
                   applied, log, failed, ret>>

\* the rank and dtype checks; return Status(eNotSupported)
Validate ==
    /\ pc = "validate"
    /\ IF ValidShapes(infer_res.shape)
          THEN /\ pc' = "transfer"
               /\ ret' = ret
          ELSE /\ pc' = "returned"
               /\ ret' = [kind |-> "eNotSupported", value |-> <<>>]
    /\ UNCHANGED <<objvars, infer_res, prep_res, result, dispatched, i, stream,
                   warped_mask, mats, applied, log, failed>>

\* OUTCOME_TRY(MakeAvailableOnDevice(dets, kHost, stream())), and the same for
\* labels: on the host the tensor itself, else a copy queued on the stream
Transfer ==
    /\ pc = "transfer"
    /\ log' = Append(log, Event("transfer", 0))
    /\ \E ok \in BOOLEAN :
         IF ok
            THEN /\ pc' = "dispatch"
                 /\ stream' = IF device_ = "host" THEN stream
                              ELSE Append(stream, "inputs")
                 /\ UNCHANGED <<failed, ret>>
            ELSE /\ pc' = "returned"
                 /\ failed' = failed \cup {"transfer"}
                 /\ ret' = [kind |-> "error", value |-> <<>>]
                 /\ stream' = stream
    /\ UNCHANGED <<objvars, infer_res, prep_res, result, dispatched, i,
                   warped_mask, mats, applied>>

\* OUTCOME_TRY(result, DispatchGetBBoxes(img_metas, _dets, _labels)); ori_w,
\* ori_h; ProcessMasks is entered (the squeezes)
Dispatch ==
    /\ pc = "dispatch"
    /\ \E ok \in BOOLEAN :
         IF ok
            THEN \E seen \in (IF Pending("inputs")
                                 THEN {infer_res.rows, StaleRows(Len(infer_res.rows))}
                                 ELSE {infer_res.rows}),
                    keep \in SUBSET (1 .. Len(infer_res.rows)) :
                    /\ result' = GetBBoxes(seen, prep_res.k, keep)
                    /\ dispatched' = result'
                    /\ i' = 1
                    /\ pc' = "loop"
                    /\ log' = log \o <<Event("get_bboxes", 0), Event("process_masks", 0)>>
                    /\ UNCHANGED <<failed, ret>>
            ELSE /\ pc' = "returned"
                 /\ failed' = failed \cup {"get_bboxes"}
                 /\ ret' = [kind |-> "error", value |-> <<>>]
                 /\ log' = Append(log, Event("get_bboxes", 0))
                 /\ UNCHANGED <<result, dispatched, i>>
    /\ UNCHANGED <<objvars, infer_res, prep_res, stream, warped_mask, mats, applied>>

\* the stream runs the operation at its head (followed until the call ends)
StreamRun ==
    /\ pc \notin {"returned", "crashed"}
    /\ stream # <<>>
    /\ stream' = Tail(stream)
    /\ UNCHANGED <<objvars, pc, infer_res, prep_res, result, dispatched, i,
                   warped_mask, mats, applied, log, failed, ret>>

(***************************************************************************)
(* ProcessMasks: one iteration of for (auto& det : result)                 *)
(***************************************************************************)
\* what warp_affine_.Apply(mask, warped_mask, affine_matrix, height, width)
\* can do: a raster of exactly that size, an error, or an exception; no raster
\* has a negative size
ApplyOutcomes(height, width) ==
    {"error", "throw"} \cup (IF height >= 0 /\ width >= 0 THEN {"ok"} ELSE {})

\* from the slice of the mask to warp_affine_.Apply
Warp ==
    /\ pc = "loop"
    /\ i <= Len(result)
    /\ LET det == result[i]
           bbox == det.bbox
           x0 == ClipLo(bbox[1])
           y0 == ClipLo(bbox[2])
           width == TargetWidth(bbox, prep_res.img_w)
           height == TargetHeight(bbox, prep_res.img_h)
       IN  \E raw \in (IF is_rcnn_ THEN {NoBox}
                       ELSE IF Pending("inputs")
                          THEN {infer_res.rows[det.index].box, BoxOut}
                       ELSE {infer_res.rows[det.index].box}),
              out \in ApplyOutcomes(height, width), p \in Patterns :
              /\ applied' = Append(applied,
                    [det |-> i, height |-> height, width |-> width, raw |-> raw,
                     matrix |-> AffineMatrix(is_rcnn_, bbox, raw, infer_res.mask_height,
                                             infer_res.mask_width, x0, y0)])
              /\ log' = Append(log, Event("warp", i))
              /\ CASE out = "ok" ->
                        /\ warped_mask' = [height |-> height, width |-> width, pattern |-> p]
                        /\ stream' = IF device_ = "host" THEN stream
                                     ELSE Append(stream, "warp")
                        /\ pc' = "copy"
                        /\ UNCHANGED <<failed, ret>>
                   [] out = "error" ->
                        /\ p = 1
                        /\ failed' = failed \cup {"warp"}
                        /\ pc' = "to_value"
                        /\ UNCHANGED <<warped_mask, stream, ret>>
                   [] out = "throw" ->
                        /\ p = 1
                        /\ failed' = failed \cup {"warp"}
                        /\ pc' = "returned"
                        /\ ret' = [kind |-> "eFail", value |-> <<>>]
                        /\ UNCHANGED <<warped_mask, stream>>
    /\ UNCHANGED <<objvars, infer_res, prep_res, result, dispatched, i, mats>>

\* OUTCOME_TRY(_warped_mask, MakeAvailableOnDevice(warped_mask, kHost, stream()))
Copy ==
    /\ pc = "copy"
    /\ log' = Append(log, Event("copy", i))
    /\ \E ok \in BOOLEAN :
         IF ok
            THEN /\ stream' = IF device_ = "host" THEN stream
                              ELSE Append(stream, "copy")
                 /\ pc' = "threshold"
                 /\ failed' = failed
            ELSE /\ failed' = failed \cup {"copy"}
                 /\ pc' = "to_value"
                 /\ stream' = stream
    /\ UNCHANGED <<objvars, infer_res, prep_res, result, dispatched, i,
                   warped_mask, mats, applied, ret>>

\* the mask written at the row index of the detection instead of its place
\* in the list
AttachMask_ByIndex(res, j, m) ==
    IF res[j].index \in 1 .. Len(res)
       THEN [res EXCEPT ![res[j].index].mask = m]
       ELSE res

\* det.mask = ...: only the mask of the detection changes
AttachMask(res, j, m) == [res EXCEPT ![j].mask = m]

\* Tensor2CVMat, warped_mat > mask_thr_binary_, det.mask = Mat(height, width, ...):
\* the host reads its raster; while the stream still has work queued the raster
\* holds whatever the buffer holds
Threshold ==
    /\ pc = "threshold"
    /\ LET a == applied[Len(applied)]
       IN  \E p \in (IF stream # <<>> THEN {warped_mask.pattern} \cup StalePatterns
                                     ELSE {warped_mask.pattern}) :
              LET warped_mat == [warped_mask EXCEPT !.pattern = p]
              IN  /\ mats' = Append(mats, [det |-> i, raster |-> warped_mat])
                  /\ result' = AttachMask(result, i,
                        MakeMat(a.height, a.width, warped_mat, mask_thr_binary_))
    /\ log' = log \o <<[ev |-> "read", det |-> i, pending |-> stream # <<>>],
                       Event("attach", i)>>
    /\ i' = i + 1
    /\ pc' = "loop"
    /\ UNCHANGED <<objvars, infer_res, prep_res, dispatched, stream, warped_mask,
                   applied, failed, ret>>

\* the loop is over and the function ends without a return statement: the
\* caller goes on, or the program does not survive
LoopEnd ==
    /\ pc = "loop"
    /\ i > Len(result)
    /\ pc' \in {"to_value", "crashed"}
    /\ UNCHANGED <<objvars, infer_res, prep_res, result, dispatched, i, stream,
                   warped_mask, mats, applied, log, failed, ret>>

\* return to_value(result): the value ProcessMasks returned is not looked at
Return ==
    /\ pc = "to_value"
    /\ pc' = "returned"
    /\ ret' = [kind |-> "ok", value |-> result]
    /\ UNCHANGED <<objvars, infer_res, prep_res, result, dispatched, i, stream,
                   warped_mask, mats, applied, log, failed>>

Next ==
    \/ Enter
    \/ Validate
    \/ Transfer
    \/ Dispatch
    \/ StreamRun
    \/ Warp
    \/ Copy
    \/ Threshold
    \/ LoopEnd
    \/ Return

Spec == Init /\ [][Next]_vars

(***************************************************************************)
(* The geometry of ProcessMasks over a wide range of boxes: one detection  *)
(* on a host device, taken up where ProcessMasks is entered.               *)
(***************************************************************************)
XCoords == (0 - CoordPad) .. (2 * ImgW + CoordPad)
YCoords == (0 - CoordPad) .. (2 * ImgH + CoordPad)
XFit == {<<2, 2 + 2 * MaskH>>, <<0, 2 * MaskH>>}
YFit == {<<2, 2 + 2 * MaskW>>, <<0, 2 * MaskW>>}
GeomBoxes ==
    {<<a, c[1], b, c[2]>> : a \in XCoords, b \in XCoords, c \in YFit} \cup
    {<<c[1], a, c[2], b>> : a \in YCoords, b \in YCoords, c \in XFit}
WellFormed(b) == b[1] <= b[3] /\ b[2] <= b[4]

GeomInit ==
    /\ cfg \in Configs
    /\ mask_thr_binary_ = CtorThr(cfg)
    /\ is_rcnn_ = CtorIsRcnn(cfg)
    /\ device_ = "host"
    /\ pc = "loop"
    /\ \E b \in {g \in GeomBoxes : WellFormed(g)}, k \in ScaleFactors :
          /\ infer_res = [shape |-> [dets_rank |-> 3, dets_float |-> TRUE,
                                     labels_rank |-> 2, masks_rank |-> 4,
                                     masks_float |-> TRUE],
                          rows |-> <<Row(b)>>,
                          mask_height |-> MaskH, mask_width |-> MaskW]
          /\ prep_res = [img_w |-> ImgW, img_h |-> ImgH, k |-> k]
          /\ result = GetBBoxes(infer_res.rows, k, {1})
    /\ dispatched = result
    /\ i = 1
    /\ stream = <<>>
    /\ warped_mask = NoRaster
    /\ mats = <<>>
    /\ applied = <<>>
    /\ log = <<Event("transfer", 0), Event("get_bboxes", 0), Event("process_masks", 0)>>
    /\ failed = {}
    /\ ret = NoRet

GeomNext ==
    \/ Warp
    \/ Copy
    \/ Threshold
    \/ LoopEnd
    \/ Return

GeomSpec == GeomInit /\ [][GeomNext]_vars

(***************************************************************************)
(* The claims.                                                             *)
(***************************************************************************)
Dets == 1 .. Len(result)
Masked(j) == result[j].mask # NoMask
Returned(kind) == pc = "returned" /\ ret.kind = kind

\* the contract of the input tensors, in the words of the claim
Malformed(sh) ==
    \/ sh.dets_rank # 3 \/ ~sh.dets_float
    \/ sh.labels_rank # 2
    \/ sh.masks_rank # 4 \/ ~sh.masks_float

\* C1: a call whose dets is not 3-dimensional float, whose labels is not
\* 2-dimensional or whose masks is not 4-dimensional float returns
\* eNotSupported with no detection list, and none of the later steps (host
\* transfer, bbox decoding, ProcessMasks, warp, attachment) has run.
C1_MalformedIsUnsupported ==
    (pc # "idle" /\ Malformed(infer_res.shape)) =>
        /\ pc \in {"validate", "returned"}
        /\ pc = "returned" => ret = [kind |-> "eNotSupported", value |-> <<>>]
        /\ log = <<>> /\ applied = <<>> /\ mats = <<>>
        /\ result = <<>> /\ stream = <<>>

C1_Witness ==
    /\ Returned("eNotSupported")
    /\ infer_res.shape.dets_rank = 2
    /\ infer_res.shape.labels_rank = 2
    /\ infer_res.shape.masks_rank = 4 /\ infer_res.shape.masks_float

\* the clipped rectangle of the claim, in whole pixels, from a box in half
\* pixels: min(ceil(x1) + 1, img) - max(floor(x0) - 1, 0)
ClaimExtent(lo, hi, img) ==
    Min((0 - ((0 - hi) \div 2)) + 1, img) - Max((lo \div 2) - 1, 0)

\* C2: the mask attached to a detection, and the target size handed to the
\* resampler for it, have width min(ceil(x1)+1, img_w) - max(floor(x0)-1, 0)
\* and height min(ceil(y1)+1, img_h) - max(floor(y0)-1, 0); the box
\* [10,10,50,50] in a 100x100 image gives 42 x 42.
C2_MaskSizeIsClippedRectangle ==
    /\ \A q \in 1 .. Len(applied) :
          LET bbox == result[applied[q].det].bbox
          IN  /\ applied[q].width = ClaimExtent(bbox[1], bbox[3], prep_res.img_w)
              /\ applied[q].height = ClaimExtent(bbox[2], bbox[4], prep_res.img_h)
    /\ \A j \in Dets :
          Masked(j) =>
             /\ result[j].mask.width =
                   ClaimExtent(result[j].bbox[1], result[j].bbox[3], prep_res.img_w)
             /\ result[j].mask.height =
                   ClaimExtent(result[j].bbox[2], result[j].bbox[4], prep_res.img_h)
    /\ TargetWidth(<<20, 20, 100, 100>>, 100) = 42
    /\ TargetHeight(<<20, 20, 100, 100>>, 100) = 42

\* a masked detection whose box starts at a fractional coordinate inside the
\* image and ends beyond the right edge
C2_Witness ==
    /\ Len(result) = 1 /\ Masked(1)
    /\ result[1].bbox[1] = 3
    /\ result[1].bbox[3] > 2 * prep_res.img_w
    /\ result[1].mask.width = prep_res.img_w

\* C3: when the resampling step or the transfer of the resampled raster to the
\* host fails for a detection, the call returns an error and no detection list.
C3_FailureAbortsCall ==
    (pc = "returned" /\ (failed \cap {"warp", "copy"}) # {}) =>
        /\ ret.kind # "ok"
        /\ ret.value = <<>>

\* C4: the width and height handed to the resampler and to the Mat constructor
\* are never negative, for every box and image size.
C4_SizeNeverNegative ==
    /\ \A q \in 1 .. Len(applied) : applied[q].width >= 0 /\ applied[q].height >= 0
    /\ \A j \in Dets : Masked(j) => result[j].mask.width >= 0 /\ result[j].mask.height >= 0

SameButMask(d, e) ==
    /\ d.index = e.index /\ d.bbox = e.bbox
    /\ d.label = e.label /\ d.score = e.score

C6_StrictThreshold ==
    \A j \in 1 .. Len(mats) :
       LET m == result[j].mask
           r == mats[j].raster
       IN  /\ m.height = r.height /\ m.width = r.width
           /\ m.fg \subseteq Pixels(r.height, r.width)
           /\ \A px \in Pixels(r.height, r.width) :
                 (px \in m.fg) <=> (RasterValue(r.pattern, px[1], px[2]) > mask_thr_binary_)

\* a mask with a foreground pixel and a background pixel whose value is the
\* threshold
C6_Witness ==
    \E j \in 1 .. Len(mats) :
       LET m == result[j].mask
           r == mats[j].raster
       IN  /\ m.fg # {}
           /\ \E px \in Pixels(r.height, r.width) :
                 /\ RasterValue(r.pattern, px[1], px[2]) = mask_thr_binary_
                 /\ px \notin m.fg

\* the detection and raw box an Apply call was made for
BoxOf(q) == result[applied[q].det].bbox
RawOf(q) == infer_res.rows[result[applied[q].det].index].box
ConvA(q) ==
    AffineRcnn(BoxOf(q), infer_res.mask_height, infer_res.mask_width,
               ClipLo(BoxOf(q)[1]), ClipLo(BoxOf(q)[2]))
ConvB(q) ==
    AffineRtmdet(BoxOf(q), RawOf(q), ClipLo(BoxOf(q)[1]), ClipLo(BoxOf(q)[2]))

\* C7: a configuration that does not select a convention (no "params", or a
\* "params" without the key) gives Convention A, and one that does not set
\* mask_thr_binary gives 0.5.
C7_DefaultsWhenUnset ==
    /\ ~(cfg.has_params /\ cfg.rcnn) =>
          /\ is_rcnn_
          /\ \A q \in 1 .. Len(applied) : applied[q].matrix = ConvA(q)
    /\ ~(cfg.has_params /\ cfg.has_thr) => mask_thr_binary_ = DefaultThr

\* C8: on an accelerator the host reads and thresholds the raster of a
\* detection only after a blocking wait on the stream that follows the warp
\* and the copy of that detection, and never while stream work is pending.
C8_ReadAfterSync ==
    device_ = "accel" =>
       \A q \in 1 .. Len(log) :
          log[q].ev = "read" =>
             /\ ~log[q].pending
             /\ \E w \in 1 .. q - 1 :
                   /\ log[w].ev = "wait"
                   /\ \E c \in 1 .. w - 1 : log[c].ev = "copy" /\ log[c].det = log[q].det

\* the case of the claim: the raw box is the rescaled box and the mask extents
\* are the box extents, mask_h with x and mask_w with y
SameBoxCase(q) ==
    /\ RawOf(q) = BoxOf(q)
    /\ 2 * infer_res.mask_height = BoxOf(q)[3] - BoxOf(q)[1]
    /\ 2 * infer_res.mask_width = BoxOf(q)[4] - BoxOf(q)[2]

\* the coefficients the call computed, and those of the other convention on
\* the same detection
Computed(q) == applied[q].matrix
Other(q) == IF is_rcnn_ THEN ConvB(q) ELSE ConvA(q)

\* C9 as stated: in that case the four coefficients of the two conventions are
\* equal, wherever the box lies.
C9_ConventionsAgree ==
    \A q \in 1 .. Len(applied) :
       SameBoxCase(q) =>
          /\ RatEq(Computed(q).fx, Other(q).fx) /\ RatEq(Computed(q).fy, Other(q).fy)
          /\ RatEq(Computed(q).tx, Other(q).tx) /\ RatEq(Computed(q).ty, Other(q).ty)

RatAdd(a, b) == <<a[1] * b[2] + b[1] * a[2], a[2] * b[2]>>
MatrixA(q) == IF is_rcnn_ THEN Computed(q) ELSE Other(q)
MatrixB(q) == IF is_rcnn_ THEN Other(q) ELSE Computed(q)

\* C9 amended: in that case both conventions have fx = fy = 1, and the offsets
\* of Convention B are those of Convention A moved by the corner of the box
\* (tx_B = tx_A + x0, ty_B = ty_A + y0); the four coefficients are equal when
\* the corner of the box is the origin.
C9_AgreeUpToCorner ==
    \A q \in 1 .. Len(applied) :
       SameBoxCase(q) =>
          /\ RatEq(MatrixA(q).fx, <<1, 1>>) /\ RatEq(MatrixB(q).fx, <<1, 1>>)
          /\ RatEq(MatrixA(q).fy, <<1, 1>>) /\ RatEq(MatrixB(q).fy, <<1, 1>>)
          /\ RatEq(MatrixB(q).tx, RatAdd(MatrixA(q).tx, <<BoxOf(q)[1], 2>>))
          /\ RatEq(MatrixB(q).ty, RatAdd(MatrixA(q).ty, <<BoxOf(q)[2], 2>>))
          /\ (BoxOf(q)[1] = 0 /\ BoxOf(q)[2] = 0) =>
                /\ RatEq(MatrixA(q).tx, MatrixB(q).tx)
                /\ RatEq(MatrixA(q).ty, MatrixB(q).ty)

\* Convention B computed for a box of the case away from the origin
C9_Witness ==
    /\ ~is_rcnn_
    /\ Len(applied) = 1 /\ SameBoxCase(1)
    /\ BoxOf(1)[1] > 0 /\ BoxOf(1)[2] > 0
    /\ ~RatEq(MatrixA(1).tx, MatrixB(1).tx)

Degenerate(b) == b[1] = b[3] \/ b[2] = b[4]
InsideImage(b) ==
    /\ 0 <= b[1] /\ b[1] <= b[3] /\ b[3] <= 2 * prep_res.img_w
    /\ 0 <= b[2] /\ b[2] <= b[4] /\ b[4] <= 2 * prep_res.img_h

====
